---- MODULE Spec2Model ----
(***************************************************************************)
(* The RemoteRTK state algebra of remote-data-rtk (src/core/index.ts) and  *)
(* its "remote" twin (src/dev/index.tsx).  Every call of the algebra is    *)
(* one step: the step draws the arguments, runs the function as the code   *)
(* runs it and records the arguments, the returned value and the log of    *)
(* the invocations of the caller-supplied function.                        *)
(***************************************************************************)
EXTENDS Integers, Sequences, FiniteSets, TLC

VARIABLES
    op,       \* the function of the algebra that was called ("none" before)
    flavor,   \* "core" (remoteRTK) or "dev" (remote)
    list,     \* the argument list of sequenceT
    struct,   \* the entries of the argument of sequenceS, in enumeration order
    x,        \* the state handed to map / chain
    f,        \* the caller-supplied function (outer one in a composition)
    g,        \* the inner function of a composition
    result,   \* the returned value
    result2,  \* the returned value of the second pipeline of a law
    calls,    \* the arguments the caller-supplied function was invoked with
    steps,    \* how many functions were applied to reach result (SpecAlgebra)
    heap      \* the state objects in memory, by reference (SpecHeap)

vars ==
    <<op, flavor, list, struct, x, f, g, result, result2, calls, steps, heap>>

----------------------------------------------------------------------------
(* Bounds of the model. *)

MaxLen == 3     \* longest argument list of sequenceT
MaxNum == 1     \* numeric payloads are 0..MaxNum
MaxKeys == 2    \* largest struct handed to sequenceS
MaxSteps == 2   \* longest pipeline of functions applied to one value
MaxHeap == 4    \* most state objects in memory

----------------------------------------------------------------------------
(* JavaScript values: a tag and a content. *)

Undefined == [t |-> "undefined", v |-> 0]
Null      == [t |-> "null", v |-> 0]
(* what a call ends with when it throws: reading a property of undefined, *)
(* calling what is not a function                                         *)
TypeError == [t |-> "TypeError", v |-> 0]
Num(n)    == [t |-> "number", v |-> n]
Str(s)    == [t |-> "string", v |-> s]
Arr(s)    == [t |-> "array", v |-> s]     \* s: sequence of values
Obj(es)   == [t |-> "object", v |-> es]   \* es: sequence of <<key, value>>

(* `v != null` of JavaScript: false for null and for undefined. *)
notNullish(a) == a.t \notin {"null", "undefined"}

(* Property read o[k]: undefined when the object has no such key. *)
Get(o, k) == IF k \in DOMAIN o THEN o[k] ELSE Undefined

(* QueryStatus of @reduxjs/toolkit/query. *)
QueryStatus ==
    [uninitialized |-> "uninitialized", pending |-> "pending",
     fulfilled |-> "fulfilled", rejected |-> "rejected"]

----------------------------------------------------------------------------
(* Constructors.  A state is the object literal the constructor builds:    *)
(* pending has no error key, the other three have one.                     *)

initial ==
    [data |-> Undefined, error |-> Undefined, status |-> QueryStatus.uninitialized]

pending(value) ==
    [data |-> value, status |-> QueryStatus.pending]

failure(error) ==
    [data |-> Undefined, error |-> error, status |-> QueryStatus.rejected]

success(value) ==
    [data |-> value, error |-> Undefined, status |-> QueryStatus.fulfilled]

(* Type guards. *)
isInitial(data) == data.status = QueryStatus.uninitialized
isPending(data) == data.status = QueryStatus.pending
isFailure_byError(data) == notNullish(Get(data, "error"))

isFailure(data) == data.status = QueryStatus.rejected
isSuccess(data) == data.status = QueryStatus.fulfilled

----------------------------------------------------------------------------
(* sequenceT *)

(* list.map(({ data }) => data) *)
dataOf_reversed(l) == [i \in 1..Len(l) |-> l[Len(l) + 1 - i].data]

dataOf(l) == [i \in 1..Len(l) |-> l[i].data]

(* list.filter(isSuccess).length *)
successCount(l) == Len(SelectSeq(l, isSuccess))

(* list.find(isFailure): the first match, undefined when there is none *)
failureEntry_last(l) ==
    LET idx == {i \in 1..Len(l) : isFailure(l[i])}
    IN  IF idx = {} THEN Undefined
        ELSE l[CHOOSE i \in idx : \A j \in idx : j <= i]

failureEntry_firstOnly(l) ==
    IF l # <<>> /\ isFailure(l[1]) THEN l[1] ELSE Undefined

failureEntry(l) ==
    LET idx == {i \in 1..Len(l) : isFailure(l[i])}
    IN  IF idx = {} THEN Undefined
        ELSE l[CHOOSE i \in idx : \A j \in idx : i <= j]

(* (el) => (isPending(el) && el.data != null) || isSuccess(el) *)
isPendingDataOrSuccess_noSuccess(el) ==
    isPending(el) /\ notNullish(el.data)

isPendingDataOrSuccess_anyPending(el) ==
    isPending(el) \/ isSuccess(el)

isPendingDataOrSuccess(el) ==
    (isPending(el) /\ notNullish(el.data)) \/ isSuccess(el)

pendingDataOrSuccessCount(l) == Len(SelectSeq(l, isPendingDataOrSuccess))

(* list.filter(isPending).length *)
pendingCount_orInitial(l) ==
    Len(SelectSeq(l, LAMBDA el : isPending(el) \/ isInitial(el)))

pendingCount_withData(l) ==
    Len(SelectSeq(l, LAMBDA el : isPending(el) /\ notNullish(el.data)))

pendingCount(l) == Len(SelectSeq(l, isPending))

sequenceT_unguardedFind(l) ==
    IF successCount(l) = Len(l) THEN success(Arr(dataOf(l)))
    ELSE IF failureEntry(l) = Undefined THEN TypeError
    ELSE failure(Get(failureEntry(l), "error"))

sequenceT_emptyInitial(l) ==
    IF l = <<>> THEN initial
    ELSE IF successCount(l) = Len(l) THEN success(Arr(dataOf(l)))
    ELSE IF failureEntry(l) # Undefined
         THEN failure(Get(failureEntry(l), "error"))
    ELSE IF pendingDataOrSuccessCount(l) = Len(l) THEN pending(Arr(dataOf(l)))
    ELSE IF pendingCount(l) > 0 THEN pending(Undefined)
    ELSE initial

sequenceT(l) ==
    IF successCount(l) = Len(l) THEN success(Arr(dataOf(l)))
    ELSE IF failureEntry(l) # Undefined
         THEN failure(Get(failureEntry(l), "error"))
    ELSE IF pendingDataOrSuccessCount(l) = Len(l) THEN pending(Arr(dataOf(l)))
    ELSE IF pendingCount(l) > 0 THEN pending(Undefined)
    ELSE initial

----------------------------------------------------------------------------
(* sequenceS.  The struct is the sequence Object.entries(struct) yields:   *)
(* <<key, state>> pairs with pairwise different keys.                      *)

(* ({ ...acc, [key]: val }): an own key keeps its place, a new one is last *)
spreadSet_noSpread(acc, key, val) == <<<<key, val>>>>

spreadSet(acc, key, val) ==
    IF \E i \in 1..Len(acc) : acc[i][1] = key
    THEN [i \in 1..Len(acc) |->
            IF acc[i][1] = key THEN <<key, val>> ELSE acc[i]]
    ELSE Append(acc, <<key, val>>)

(* entries.reduce((acc, [key, el]) => ({ ...acc, [key]: el.data }), {}) *)
RECURSIVE reduceData(_, _)
reduceData(entries, acc) ==
    IF entries = <<>> THEN acc
    ELSE reduceData(Tail(entries),
                    spreadSet(acc, Head(entries)[1], Head(entries)[2].data))

(* entries.map(([, el]) => el) *)
valuesOf(entries) == [i \in 1..Len(entries) |-> entries[i][2]]

sequenceS(entries) ==
    LET tupleSequence == sequenceT(valuesOf(entries))
    IN  IF isSuccess(tupleSequence)
        THEN success(Obj(reduceData(entries, <<>>)))
        ELSE IF isPending(tupleSequence) /\ notNullish(tupleSequence.data)
        THEN pending(Obj(reduceData(entries, <<>>)))
        ELSE IF isPending(tupleSequence) THEN pending(Undefined)
        ELSE IF isFailure(tupleSequence) THEN tupleSequence
        ELSE initial

----------------------------------------------------------------------------
(* Caller-supplied functions.  A function is the sequence of the names of  *)
(* the functions it composes, outermost first: <<"double">> is             *)
(* a => a * 2, <<"isNullish", "constNull">> is a => isNullish(null).       *)

NaN == [t |-> "NaN", v |-> 0]

(* The number `*` makes of its operand.  null is 0 and undefined NaN; an   *)
(* array goes through its string, list.join(","), in which a null or       *)
(* undefined element is empty: [] is 0, [e] is what e is (0 for null and   *)
(* undefined), two or more elements have a comma and are NaN.  The strings *)
(* of the model ("e1", "e2", "else") are not numerals, objects are         *)
(* "[object Object]": NaN.                                                 *)
RECURSIVE toNumber(_)
toNumber(a) ==
    CASE a.t = "number" -> a
      [] a.t = "null" -> Num(0)
      [] a.t = "array" ->
            IF Len(a.v) = 0 THEN Num(0)
            ELSE IF Len(a.v) > 1 THEN NaN
            ELSE IF a.v[1].t \in {"null", "undefined"} THEN Num(0)
            ELSE toNumber(a.v[1])
      [] OTHER -> NaN

applyNamed(name, a) ==
    CASE name = "id" -> a
      [] name = "double" ->                       \* (a) => a * 2
            IF toNumber(a) = NaN THEN NaN ELSE Num(toNumber(a).v * 2)
      [] name = "constNull" -> Null               \* () => null
      [] name = "constUndefined" -> Undefined     \* () => undefined
      [] name = "isNullish" ->                    \* (a) => (a == null ? 1 : 0)
            IF notNullish(a) THEN Num(0) ELSE Num(1)

RECURSIVE Apply(_, _)
Apply(fn, a) ==
    IF fn = <<>> THEN a ELSE applyNamed(Head(fn), Apply(Tail(fn), a))

(* Functions returning a state, for chain. *)
applyKleisli(name, a) ==
    CASE name = "successDouble" -> success(applyNamed("double", a))
      [] name = "success" -> success(a)
      [] name = "pending" -> pending(a)
      [] name = "failure" -> failure(Str("e1"))
      [] name = "initial" -> initial

----------------------------------------------------------------------------
(* map and chain.  ret is the returned value, calls the arguments f was    *)
(* invoked with, in order.                                                 *)

(* remoteRTK.map, src/core/index.ts *)
map_alwaysApply(fn, data) ==
    [ret   |-> [data EXCEPT !.data = Apply(fn, data.data)],
     calls |-> <<data.data>>]

map_noSpread(fn, data) ==
    [ret   |-> [data |-> IF notNullish(data.data) THEN Apply(fn, data.data)
                         ELSE data.data,
                status |-> data.status],
     calls |-> IF notNullish(data.data) THEN <<data.data>> ELSE <<>>]

map(fn, data) ==
    [ret   |-> [data EXCEPT !.data =
                    IF notNullish(data.data) THEN Apply(fn, data.data)
                    ELSE data.data],
     calls |-> IF notNullish(data.data) THEN <<data.data>> ELSE <<>>]

(* remote.map, src/dev/index.tsx *)
devMap(fn, data) ==
    IF isSuccess(data)
    THEN [ret |-> success(Apply(fn, data.data)), calls |-> <<data.data>>]
    ELSE IF isPending(data) /\ notNullish(data.data)
    THEN [ret |-> pending(Apply(fn, data.data)), calls |-> <<data.data>>]
    ELSE [ret |-> data, calls |-> <<>>]

mapOf(fl, fn, data) == IF fl = "core" THEN map(fn, data) ELSE devMap(fn, data)

(* The function handed to chain is a sequence of names: <<k>> is the       *)
(* named function, <<k1, k2>> is (a) => pipe(k1(a), chain(k2)).            *)
RECURSIVE chain(_, _)

callKleisli(ks, a) ==
    IF Len(ks) = 1 THEN applyKleisli(ks[1], a)
    ELSE chain(Tail(ks), applyKleisli(Head(ks), a)).ret

(* remoteRTK.chain *)
chain_nullishGuard(k, data) ==
    IF notNullish(data.data)
    THEN [ret |-> callKleisli(k, data.data), calls |-> <<data.data>>]
    ELSE [ret |-> data, calls |-> <<>>]

chain_successOnly(k, data) ==
    IF isSuccess(data)
    THEN [ret |-> callKleisli(k, data.data), calls |-> <<data.data>>]
    ELSE [ret |-> data, calls |-> <<>>]

chain(k, data) ==
    IF isSuccess(data)
    THEN [ret |-> callKleisli(k, data.data), calls |-> <<data.data>>]
    ELSE IF isPending(data) /\ notNullish(data.data)
    THEN [ret |-> callKleisli(k, data.data), calls |-> <<data.data>>]
    ELSE [ret |-> data, calls |-> <<>>]

(* remote.chain, src/dev/index.tsx *)
devChain(k, data) ==
    IF isSuccess(data)
    THEN [ret |-> callKleisli(k, data.data), calls |-> <<data.data>>]
    ELSE IF isPending(data) /\ notNullish(data.data)
    THEN [ret |-> callKleisli(k, data.data), calls |-> <<data.data>>]
    ELSE [ret |-> data, calls |-> <<>>]

----------------------------------------------------------------------------
(* fp-ts Option and Either. *)

none    == [_tag |-> "None"]
some(a) == [_tag |-> "Some", value |-> a]
isNone(o) == o._tag = "None"

(* fromNullable: none for null and undefined *)
fromNullable(a) == IF notNullish(a) THEN some(a) ELSE none

left(e)  == [_tag |-> "Left", left |-> e]
right(a) == [_tag |-> "Right", right |-> a]
isLeft(ea) == ea._tag = "Left"

----------------------------------------------------------------------------
(* Caller-supplied callbacks and thunks, as data:                          *)
(*   const(name, v)       () => v                                          *)
(*   tag(name)            (a) => [name, a]                                 *)
(*   optionFold(n, s)     fold(n, s) of fp-ts/Option                       *)
(* Invoke is the value a call returns, InvokeLog the <<name, argument>>    *)
(* pairs of the callbacks that ran, in order.                              *)

const(name, value) == [kind |-> "const", name |-> name, value |-> value]
tag(name)          == [kind |-> "tag", name |-> name]
optionFold(onNone, onSome) ==
    [kind |-> "optionFold", onNone |-> onNone, onSome |-> onSome]

RECURSIVE Invoke(_, _)
Invoke(cb, arg) ==
    CASE cb.kind = "const" -> cb.value
      [] cb.kind = "tag" -> Arr(<<Str(cb.name), arg>>)
      [] cb.kind = "optionFold" ->
            IF isNone(arg) THEN Invoke(cb.onNone, Undefined)
            ELSE Invoke(cb.onSome, arg.value)

RECURSIVE InvokeLog(_, _)
InvokeLog(cb, arg) ==
    CASE cb.kind = "const" -> <<<<cb.name, arg>>>>
      [] cb.kind = "tag" -> <<<<cb.name, arg>>>>
      [] cb.kind = "optionFold" ->
            IF isNone(arg) THEN InvokeLog(cb.onNone, Undefined)
            ELSE InvokeLog(cb.onSome, arg.value)

(* the outcome of invoking cb on arg; of invoking nothing, returning v *)
Call(cb, arg)  == [ret |-> Invoke(cb, arg), calls |-> InvokeLog(cb, arg)]
Return(v)      == [ret |-> v, calls |-> <<>>]

----------------------------------------------------------------------------
(* fold *)

fold_alwaysSome(onInitial, onPending, onFailure, onSuccess, data) ==
    IF isInitial(data) THEN Call(onInitial, Undefined)
    ELSE IF isFailure(data) THEN Call(onFailure, Get(data, "error"))
    ELSE IF isSuccess(data) THEN Call(onSuccess, data.data)
    ELSE Call(onPending, some(data.data))

fold(onInitial, onPending, onFailure, onSuccess, data) ==
    IF isInitial(data) THEN Call(onInitial, Undefined)
    ELSE IF isFailure(data) THEN Call(onFailure, Get(data, "error"))
    ELSE IF isSuccess(data) THEN Call(onSuccess, data.data)
    ELSE Call(onPending, fromNullable(data.data))

----------------------------------------------------------------------------
(* Extraction and conversions. *)

getOrElse_successOnly(onElse, data) ==
    IF isSuccess(data) THEN Return(data.data)
    ELSE Call(onElse, Undefined)

getOrElse(onElse, data) ==
    IF isSuccess(data) THEN Return(data.data)
    ELSE IF isPending(data) /\ notNullish(data.data) THEN Return(data.data)
    ELSE Call(onElse, Undefined)

toNullable_rawData(data) == data.data

toNullable(data) ==
    IF isSuccess(data) THEN data.data
    ELSE IF isPending(data) /\ notNullish(data.data) THEN data.data
    ELSE Null

fromOption_nullish(option, onNone) ==
    IF isNone(option) \/ ~notNullish(option.value)
    THEN [ret   |-> failure(Invoke(onNone, Undefined)),
          calls |-> InvokeLog(onNone, Undefined)]
    ELSE Return(success(option.value))

fromOption(option, onNone) ==
    IF isNone(option)
    THEN [ret   |-> failure(Invoke(onNone, Undefined)),
          calls |-> InvokeLog(onNone, Undefined)]
    ELSE Return(success(option.value))

toOption_fromNullable(data) ==
    IF isSuccess(data) \/ isPending(data) THEN fromNullable(data.data)
    ELSE none

toOption(data) ==
    IF isSuccess(data) THEN some(data.data)
    ELSE IF isPending(data) /\ notNullish(data.data) THEN some(data.data)
    ELSE none

fromEither(ea) ==
    IF isLeft(ea) THEN failure(ea.left) ELSE success(ea.right)

toEither_nullish(onInitial, onPending, data) ==
    IF (isSuccess(data) \/ isPending(data)) /\ notNullish(data.data)
    THEN Return(right(data.data))
    ELSE IF isFailure(data) THEN Return(left(Get(data, "error")))
    ELSE IF isInitial(data)
    THEN [ret   |-> left(Invoke(onInitial, Undefined)),
          calls |-> InvokeLog(onInitial, Undefined)]
    ELSE [ret   |-> left(Invoke(onPending, Undefined)),
          calls |-> InvokeLog(onPending, Undefined)]

toEither_pendingAsInitial(onInitial, onPending, data) ==
    IF isSuccess(data) THEN Return(right(data.data))
    ELSE IF isFailure(data) THEN Return(left(Get(data, "error")))
    ELSE IF isPending(data) /\ notNullish(data.data)
    THEN Return(right(data.data))
    ELSE [ret   |-> left(Invoke(onInitial, Undefined)),
          calls |-> InvokeLog(onInitial, Undefined)]

toEither(onInitial, onPending, data) ==
    IF isSuccess(data) THEN Return(right(data.data))
    ELSE IF isFailure(data) THEN Return(left(Get(data, "error")))
    ELSE IF isInitial(data)
    THEN [ret   |-> left(Invoke(onInitial, Undefined)),
          calls |-> InvokeLog(onInitial, Undefined)]
    ELSE IF isPending(data) /\ notNullish(data.data)
    THEN Return(right(data.data))
    ELSE [ret   |-> left(Invoke(onPending, Undefined)),
          calls |-> InvokeLog(onPending, Undefined)]

----------------------------------------------------------------------------
(* The presentation adapter.  props is the props object; an omitted prop   *)
(* reads undefined, which is what makes a default parameter apply.         *)

(* remote.fold, src/dev/index.tsx *)
devFold(onInitial, onPending, onFailure, onSuccess, data) ==
    IF isInitial(data) THEN Call(onInitial, Undefined)
    ELSE IF isFailure(data) THEN Call(onFailure, Get(data, "error"))
    ELSE IF isSuccess(data) THEN Call(onSuccess, data.data)
    ELSE Call(onPending, fromNullable(data.data))

(* createElement(Fragment, null, children) *)
createElement(type, config, children) ==
    [type |-> type, props |-> [children |-> children]]

(* `prop = dflt` in the parameter list *)
default(prop, dflt) == IF prop = Undefined THEN dflt ELSE prop

RenderRemoteRTK_refetchingEmpty(props) ==
    LET pendingP    == default(props.pending, Null)
        refetchingP == default(props.refetching, const("refetchingDefault", Null))
        failureP    == default(props.failure, const("failureDefault", Null))
        initialP    == default(props.initial, Null)
        r == fold(const("initial", initialP),
                  optionFold(const("pending", pendingP), refetchingP),
                  failureP, props.success, props.data)
    IN  [ret |-> createElement("Fragment", Null, r.ret), calls |-> r.calls]

RenderRemoteRTK(props) ==
    LET pendingP    == default(props.pending, Null)
        refetchingP == default(props.refetching,
                               const("refetchingDefault", pendingP))
        failureP    == default(props.failure, const("failureDefault", Null))
        initialP    == default(props.initial, Null)
        r == fold(const("initial", initialP),
                  optionFold(const("pending", pendingP), refetchingP),
                  failureP, props.success, props.data)
    IN  [ret |-> createElement("Fragment", Null, r.ret), calls |-> r.calls]

RenderRemote(props) ==
    LET pendingP    == default(props.pending, Null)
        refetchingP == default(props.refetching,
                               const("refetchingDefault", pendingP))
        failureP    == default(props.failure, const("failureDefault", Null))
        initialP    == default(props.initial, Null)
        r == devFold(const("initial", initialP),
                     optionFold(const("pending", pendingP), refetchingP),
                     failureP, props.success, props.data)
    IN  [ret |-> createElement("Fragment", Null, r.ret), calls |-> r.calls]

renderOf(fl, props) ==
    IF fl = "core" THEN RenderRemoteRTK(props) ELSE RenderRemote(props)

----------------------------------------------------------------------------
(* The remote flavor, src/dev/index.tsx: the functions the two flavors     *)
(* share, from the dev file's own text.                                    *)

devGetOrElse(onElse, data) ==
    IF isSuccess(data) THEN Return(data.data)
    ELSE IF isPending(data) /\ notNullish(data.data) THEN Return(data.data)
    ELSE Call(onElse, Undefined)

devToNullable(data) ==
    IF isSuccess(data) THEN data.data
    ELSE IF isPending(data) /\ notNullish(data.data) THEN data.data
    ELSE Null

devFromOption(option, onNone) ==
    IF isNone(option)
    THEN [ret   |-> failure(Invoke(onNone, Undefined)),
          calls |-> InvokeLog(onNone, Undefined)]
    ELSE Return(success(option.value))

devToOption(data) ==
    IF isSuccess(data) THEN some(data.data)
    ELSE IF isPending(data) /\ notNullish(data.data) THEN some(data.data)
    ELSE none

devFromEither(ea) ==
    IF isLeft(ea) THEN failure(ea.left) ELSE success(ea.right)

devToEither(onInitial, onPending, data) ==
    IF isSuccess(data) THEN Return(right(data.data))
    ELSE IF isFailure(data) THEN Return(left(Get(data, "error")))
    ELSE IF isInitial(data)
    THEN [ret   |-> left(Invoke(onInitial, Undefined)),
          calls |-> InvokeLog(onInitial, Undefined)]
    ELSE IF isPending(data) /\ notNullish(data.data)
    THEN Return(right(data.data))
    ELSE [ret   |-> left(Invoke(onPending, Undefined)),
          calls |-> InvokeLog(onPending, Undefined)]

(* remote.sequence *)
sequence(l) ==
    IF successCount(l) = Len(l) THEN success(Arr(dataOf(l)))
    ELSE IF failureEntry(l) # Undefined
         THEN failure(Get(failureEntry(l), "error"))
    ELSE IF pendingDataOrSuccessCount(l) = Len(l) THEN pending(Arr(dataOf(l)))
    ELSE IF pendingCount(l) > 0 THEN pending(Undefined)
    ELSE initial

(* remote.combine *)
combine(entries) ==
    LET tupleSequence == sequence(valuesOf(entries))
    IN  IF isSuccess(tupleSequence)
        THEN success(Obj(reduceData(entries, <<>>)))
        ELSE IF isPending(tupleSequence) /\ notNullish(tupleSequence.data)
        THEN pending(Obj(reduceData(entries, <<>>)))
        ELSE IF isPending(tupleSequence) THEN pending(Undefined)
        ELSE IF isFailure(tupleSequence) THEN tupleSequence
        ELSE initial
----------------------------------------------------------------------------
(* The arguments the steps draw. *)

Payloads == {Num(n) : n \in 0..MaxNum} \cup {Null, Undefined}
Errors   == {Str("e1"), Str("e2"), Null}

States ==
    {initial} \cup {pending(a) : a \in Payloads}
              \cup {failure(e) : e \in Errors}
              \cup {success(a) : a \in Payloads}

Lists(n) == [1..n -> States]

Keys == {"one", "two", "three", "four"}

KeySeqs(n) ==
    {ks \in [1..n -> Keys] : \A i, j \in 1..n : ks[i] = ks[j] => i = j}

(* the entries of the struct with keys ks and values l *)
entriesOf(ks, l) == [i \in 1..Len(ks) |-> <<ks[i], l[i]>>]

Flavors == {"core", "dev"}

FnNames == {"id", "double", "constNull", "constUndefined", "isNullish"}
Fns     == {<<n>> : n \in FnNames}

KleisliNames == {"successDouble", "success", "pending", "failure", "initial"}

Options == {none} \cup {some(a) : a \in Payloads}
Eithers == {left(e) : e \in Errors} \cup {right(a) : a \in Payloads}

(* the four constructors, applied to a *)
Constructors == {"initial", "pending", "failure", "success"}

construct(c, a) ==
    CASE c = "initial" -> initial
      [] c = "pending" -> pending(a)
      [] c = "failure" -> failure(a)
      [] c = "success" -> success(a)

(* render props: content for initial / pending, undefined when omitted *)
InitialNodes == {Undefined, Null, Str("initial-node")}
PendingNodes == {Undefined, Null, Str("pending-node")}
RefetchingRenderers == {Undefined, tag("refetching")}
FailureRenderers    == {Undefined, tag("failure")}

(* the values the thunks onElse / onNone / onInitial / onPending return *)
ElseValues == {Str("else"), Null}

----------------------------------------------------------------------------
Init ==
    /\ op = "none"
    /\ flavor = "core"
    /\ list = <<>>
    /\ struct = <<>>
    /\ x = initial
    /\ f = <<>>
    /\ g = <<>>
    /\ result = initial
    /\ result2 = initial
    /\ calls = <<>>
    /\ steps = 0
    /\ heap = <<initial>>

(* remoteRTK.sequenceT(...l) *)
SequenceT ==
    /\ op = "none"
    /\ \E n \in 0..MaxLen : \E l \in Lists(n) :
        /\ list' = l
        /\ result' = sequenceT(l)
    /\ op' = "sequenceT"
    /\ UNCHANGED <<flavor, struct, x, f, g, result2, calls, steps, heap>>

(* remoteRTK.sequenceS(s); result2 is the local tupleSequence *)
SequenceS ==
    /\ op = "none"
    /\ \E n \in 0..MaxKeys : \E ks \in KeySeqs(n), l \in Lists(n) :
        /\ struct' = entriesOf(ks, l)
        /\ list' = valuesOf(entriesOf(ks, l))
        /\ result2' = sequenceT(valuesOf(entriesOf(ks, l)))
        /\ result' = sequenceS(entriesOf(ks, l))
    /\ op' = "sequenceS"
    /\ UNCHANGED <<flavor, x, f, g, calls, steps, heap>>

(* pipe(s, map(fn)) in either flavor *)
Map ==
    /\ op = "none"
    /\ \E fl \in Flavors, fn \in Fns, s \in States :
        /\ flavor' = fl
        /\ f' = fn
        /\ x' = s
        /\ result' = mapOf(fl, fn, s).ret
        /\ calls' = mapOf(fl, fn, s).calls
    /\ op' = "map"
    /\ UNCHANGED <<list, struct, g, result2, steps, heap>>

(* The two sides of the composition law:                                   *)
(* result = pipe(s, map(flow(gn, fn))), result2 = pipe(s, map(gn), map(fn)) *)
MapCompose ==
    /\ op = "none"
    /\ \E fl \in Flavors, fn \in Fns, gn \in Fns, s \in States :
        /\ flavor' = fl
        /\ f' = fn
        /\ g' = gn
        /\ x' = s
        /\ result' = mapOf(fl, fn \o gn, s).ret
        /\ result2' = mapOf(fl, fn, mapOf(fl, gn, s).ret).ret
    /\ op' = "mapCompose"
    /\ UNCHANGED <<list, struct, calls, steps, heap>>

(* pipe(s, chain(k)) *)
Chain ==
    /\ op = "none"
    /\ \E k \in KleisliNames, s \in States :
        /\ f' = <<k>>
        /\ x' = s
        /\ result' = chain(<<k>>, s).ret
        /\ calls' = chain(<<k>>, s).calls
    /\ op' = "chain"
    /\ UNCHANGED <<flavor, list, struct, g, result2, steps, heap>>

(* pipe(s, fold(onInitial, onPending, onFailure, onSuccess)) *)
Fold ==
    /\ op = "none"
    /\ \E s \in States :
        LET r == fold(tag("onInitial"), tag("onPending"), tag("onFailure"),
                      tag("onSuccess"), s)
        IN  /\ x' = s
            /\ result' = r.ret
            /\ calls' = r.calls
    /\ op' = "fold"
    /\ UNCHANGED <<flavor, list, struct, f, g, result2, steps, heap>>

(* pipe(s, getOrElse(onElse)) *)
GetOrElse ==
    /\ op = "none"
    /\ \E s \in States, v \in ElseValues :
        /\ x' = s
        /\ f' = const("onElse", v)
        /\ result' = getOrElse(const("onElse", v), s).ret
        /\ calls' = getOrElse(const("onElse", v), s).calls
    /\ op' = "getOrElse"
    /\ UNCHANGED <<flavor, list, struct, g, result2, steps, heap>>

(* toNullable(s), next to pipe(s, getOrElse(() => null)) *)
ToNullable ==
    /\ op = "none"
    /\ \E s \in States :
        /\ x' = s
        /\ result' = toNullable(s)
        /\ result2' = getOrElse(const("onElse", Null), s).ret
    /\ op' = "toNullable"
    /\ UNCHANGED <<flavor, list, struct, f, g, calls, steps, heap>>

(* toOption(s) *)
ToOption ==
    /\ op = "none"
    /\ \E s \in States :
        /\ x' = s
        /\ result' = toOption(s)
    /\ op' = "toOption"
    /\ UNCHANGED <<flavor, list, struct, f, g, result2, calls, steps, heap>>

(* result = fromOption(o, onNone), result2 = toOption(result) *)
FromOption ==
    /\ op = "none"
    /\ \E o \in Options, e \in Errors :
        /\ x' = o
        /\ f' = const("onNone", e)
        /\ result' = fromOption(o, const("onNone", e)).ret
        /\ calls' = fromOption(o, const("onNone", e)).calls
        /\ result2' = toOption(fromOption(o, const("onNone", e)).ret)
    /\ op' = "fromOption"
    /\ UNCHANGED <<flavor, list, struct, g, steps, heap>>

(* result = fromEither(ea), result2 = pipe(result, toEither(onInitial, onPending)) *)
FromEither ==
    /\ op = "none"
    /\ \E ea \in Eithers, e \in Errors :
        LET back == toEither(const("onInitial", e), const("onPending", e),
                             fromEither(ea))
        IN  /\ x' = ea
            /\ f' = const("onInitial", e)
            /\ g' = const("onPending", e)
            /\ result' = fromEither(ea)
            /\ result2' = back.ret
            /\ calls' = back.calls
    /\ op' = "fromEither"
    /\ UNCHANGED <<flavor, list, struct, steps, heap>>

(* pipe(s, toEither(onInitial, onPending)) *)
ToEither ==
    /\ op = "none"
    /\ \E s \in States, ei \in Errors, ep \in Errors :
        LET r == toEither(const("onInitial", ei), const("onPending", ep), s)
        IN  /\ x' = s
            /\ f' = const("onInitial", ei)
            /\ g' = const("onPending", ep)
            /\ result' = r.ret
            /\ calls' = r.calls
    /\ op' = "toEither"
    /\ UNCHANGED <<flavor, list, struct, result2, steps, heap>>

(* the four type guards on a freshly constructed value *)
Guards ==
    /\ op = "none"
    /\ \E c \in Constructors, a \in Payloads \cup Errors :
        /\ f' = <<c>>
        /\ x' = construct(c, a)
        /\ result' = [isInitial |-> isInitial(construct(c, a)),
                      isPending |-> isPending(construct(c, a)),
                      isFailure |-> isFailure(construct(c, a)),
                      isSuccess |-> isSuccess(construct(c, a))]
    /\ op' = "guards"
    /\ UNCHANGED <<flavor, list, struct, g, result2, calls, steps, heap>>

(* RenderRemoteRTK(props) / RenderRemote(props) *)
Render ==
    /\ op = "none"
    /\ \E fl \in Flavors, s \in States, i \in InitialNodes, p \in PendingNodes,
          r \in RefetchingRenderers, e \in FailureRenderers :
        LET props == [data |-> s, initial |-> i, pending |-> p,
                      refetching |-> r, failure |-> e,
                      success |-> tag("success")]
        IN  /\ flavor' = fl
            /\ x' = s
            /\ f' = props
            /\ result' = renderOf(fl, props).ret
            /\ calls' = renderOf(fl, props).calls
    /\ op' = "render"
    /\ UNCHANGED <<list, struct, g, result2, steps, heap>>

(* One call handed to both flavors: result is what remoteRTK returns,       *)
(* result2 what remote returns for the same arguments.                     *)
Flavored(name, coreResult, devResult) ==
    /\ op' = name
    /\ result' = coreResult
    /\ result2' = devResult

(* the functions of one state argument, called as the tests call them *)
ReadNames == {"fold", "getOrElse", "toNullable", "toOption", "toEither"}

readCore(name, s, v) ==
    CASE name = "fold" ->
            fold(tag("onInitial"), tag("onPending"), tag("onFailure"),
                 tag("onSuccess"), s).ret
      [] name = "getOrElse" -> getOrElse(const("onElse", v), s).ret
      [] name = "toNullable" -> toNullable(s)
      [] name = "toOption" -> toOption(s)
      [] name = "toEither" ->
            toEither(const("onInitial", v), const("onPending", v), s).ret

readDev(name, s, v) ==
    CASE name = "fold" ->
            devFold(tag("onInitial"), tag("onPending"), tag("onFailure"),
                    tag("onSuccess"), s).ret
      [] name = "getOrElse" -> devGetOrElse(const("onElse", v), s).ret
      [] name = "toNullable" -> devToNullable(s)
      [] name = "toOption" -> devToOption(s)
      [] name = "toEither" ->
            devToEither(const("onInitial", v), const("onPending", v), s).ret

FlavorsMap ==
    /\ op = "none"
    /\ \E fn \in Fns, s \in States :
        /\ f' = fn
        /\ x' = s
        /\ Flavored("flavors.map", map(fn, s).ret, devMap(fn, s).ret)
    /\ UNCHANGED <<flavor, list, struct, g, calls, steps, heap>>

FlavorsChain ==
    /\ op = "none"
    /\ \E k \in KleisliNames, s \in States :
        /\ f' = <<k>>
        /\ x' = s
        /\ Flavored("flavors.chain", chain(<<k>>, s).ret, devChain(<<k>>, s).ret)
    /\ UNCHANGED <<flavor, list, struct, g, calls, steps, heap>>

FlavorsRead ==
    /\ op = "none"
    /\ \E name \in ReadNames, s \in States, v \in ElseValues :
        /\ f' = <<name>>
        /\ x' = s
        /\ Flavored("flavors.read", readCore(name, s, v), readDev(name, s, v))
    /\ UNCHANGED <<flavor, list, struct, g, calls, steps, heap>>

FlavorsFrom ==
    /\ op = "none"
    /\ \/ \E o \in Options, e \in Errors :
            /\ x' = o
            /\ Flavored("flavors.fromOption",
                        fromOption(o, const("onNone", e)).ret,
                        devFromOption(o, const("onNone", e)).ret)
       \/ \E ea \in Eithers :
            /\ x' = ea
            /\ Flavored("flavors.fromEither", fromEither(ea), devFromEither(ea))
    /\ UNCHANGED <<flavor, list, struct, f, g, calls, steps, heap>>

FlavorsSequence ==
    /\ op = "none"
    /\ \E n \in 0..MaxLen : \E l \in Lists(n) :
        /\ list' = l
        /\ Flavored("flavors.sequence", sequenceT(l), sequence(l))
    /\ UNCHANGED <<flavor, struct, x, f, g, calls, steps, heap>>

FlavorsCombine ==
    /\ op = "none"
    /\ \E n \in 0..MaxKeys : \E ks \in KeySeqs(n), l \in Lists(n) :
        /\ struct' = entriesOf(ks, l)
        /\ list' = l
        /\ Flavored("flavors.combine", sequenceS(entriesOf(ks, l)),
                    combine(entriesOf(ks, l)))
    /\ UNCHANGED <<flavor, x, f, g, calls, steps, heap>>

(* the keys of the exported objects *)
remoteRTK ==
    {"initial", "pending", "failure", "success", "isInitial", "isPending",
     "isFailure", "isSuccess", "map", "fold", "getOrElse", "toNullable",
     "fromOption", "toOption", "fromEither", "toEither", "chain",
     "sequenceT", "sequenceS"}

remote ==
    {"initial", "pending", "failure", "success", "isInitial", "isPending",
     "isFailure", "isSuccess", "map", "fold", "getOrElse", "toNullable",
     "fromOption", "toOption", "fromEither", "toEither", "chain",
     "sequence", "combine"}

apiOf(fl) == IF fl = "core" THEN remoteRTK ELSE remote

(* pipe(failure(e), api.mapLeft(fn)) as the README writes it: the object   *)
(* has no such key, the read is undefined and calling it throws            *)
MapLeft ==
    /\ op = "none"
    /\ \E fl \in Flavors, fn \in Fns, e \in Errors :
        /\ "mapLeft" \notin apiOf(fl)
        /\ flavor' = fl
        /\ f' = fn
        /\ x' = failure(e)
        /\ result' = TypeError
    /\ op' = "mapLeft"
    /\ UNCHANGED <<list, struct, g, result2, calls, steps, heap>>

(* The two sides of associativity, and of left identity on success(a):     *)
(* result = pipe(s, chain(k1), chain(k2)),                                 *)
(* result2 = pipe(s, chain((a) => pipe(k1(a), chain(k2))))                 *)
ChainChain ==
    /\ op = "none"
    /\ \E k1 \in KleisliNames, k2 \in KleisliNames, s \in States :
        /\ f' = <<k1>>
        /\ g' = <<k2>>
        /\ x' = s
        /\ result' = chain(<<k2>>, chain(<<k1>>, s).ret).ret
        /\ result2' = chain(<<k1, k2>>, s).ret
        /\ calls' = chain(<<k1>>, s).calls
    /\ op' = "chain.chain"
    /\ UNCHANGED <<flavor, list, struct, steps, heap>>

(* pipe(sequenceT(...l), toOption) *)
SequenceTToOption ==
    /\ op = "none"
    /\ \E n \in 0..MaxLen : \E l \in Lists(n) :
        /\ list' = l
        /\ result' = sequenceT(l)
        /\ result2' = toOption(sequenceT(l))
    /\ op' = "sequenceT.toOption"
    /\ UNCHANGED <<flavor, struct, x, f, g, calls, steps, heap>>

(* the orders the same arguments can be passed in *)
Orders(n) ==
    {p \in [1..n -> 1..n] : \A i, j \in 1..n : p[i] = p[j] => i = j}

(* sequenceT(...l) and sequenceT of the same states in the order p *)
SequenceTPermuted ==
    /\ op = "none"
    /\ \E n \in 0..MaxLen : \E l \in Lists(n), p \in Orders(n) :
        /\ list' = l
        /\ g' = p
        /\ result' = sequenceT(l)
        /\ result2' = sequenceT([i \in 1..n |-> l[p[i]]])
    /\ op' = "sequenceT.permuted"
    /\ UNCHANGED <<flavor, struct, x, f, calls, steps, heap>>

FlavorOps ==
    {"flavors.map", "flavors.chain", "flavors.read", "flavors.fromOption",
     "flavors.fromEither", "flavors.sequence", "flavors.combine"}

Next ==
    \/ SequenceT \/ SequenceS \/ Map \/ MapCompose \/ Chain
    \/ Fold \/ GetOrElse \/ ToNullable \/ ToOption \/ FromOption
    \/ FromEither \/ ToEither \/ Guards \/ Render
    \/ FlavorsMap \/ FlavorsChain \/ FlavorsRead \/ FlavorsFrom
    \/ FlavorsSequence \/ FlavorsCombine
    \/ SequenceTToOption \/ SequenceTPermuted \/ ChainChain \/ MapLeft

Spec == Init /\ [][Next]_vars

----------------------------------------------------------------------------
(* Pipelines.  result starts as a value of one of the four constructors;   *)
(* every step applies one function of the algebra to it (x is the value    *)
(* before the step), the other arguments being freshly constructed values. *)

InitAlgebra ==
    /\ op = "construct"
    /\ flavor = "core"
    /\ list = <<>>
    /\ struct = <<>>
    /\ x = initial
    /\ f = <<>>
    /\ g = <<>>
    /\ result \in States
    /\ result2 = initial
    /\ calls = <<>>
    /\ steps = 0
    /\ heap = <<initial>>

(* the rest of a pipeline step that turns result into r by function name *)
Piped(name, r) ==
    /\ steps < MaxSteps
    /\ steps' = steps + 1
    /\ op' = name
    /\ x' = result
    /\ result' = r
    /\ UNCHANGED <<flavor, list, struct, f, g, result2, calls, heap>>

(* the argument lists that hold the current value: alone, with itself,     *)
(* before or after a fresh value                                           *)
ListsWith(cur) ==
    {<<cur>>, <<cur, cur>>} \cup {<<cur, s>> : s \in States}
                            \cup {<<s, cur>> : s \in States}

PipeMap == \E fn \in Fns : Piped("map", map(fn, result).ret)

PipeChain == \E k \in KleisliNames : Piped("chain", chain(<<k>>, result).ret)

PipeSequenceT == \E l \in ListsWith(result) : Piped("sequenceT", sequenceT(l))

PipeSequenceS ==
    \E l \in ListsWith(result) :
        Piped("sequenceS",
              sequenceS(entriesOf(SubSeq(<<"one", "two">>, 1, Len(l)), l)))

(* fromOption(toOption(result), onNone) *)
PipeFromOption ==
    \E e \in Errors :
        Piped("fromOption", fromOption(toOption(result), const("onNone", e)).ret)

(* fromEither(toEither(onInitial, onPending)(result)) *)
PipeFromEither ==
    \E e \in Errors :
        Piped("fromEither",
              fromEither(toEither(const("onInitial", e), const("onPending", e),
                                  result).ret))

NextAlgebra ==
    \/ PipeMap \/ PipeChain \/ PipeSequenceT \/ PipeSequenceS
    \/ PipeFromOption \/ PipeFromEither

SpecAlgebra == InitAlgebra /\ [][NextAlgebra]_vars

----------------------------------------------------------------------------
(* States by reference.  heap[a] is the object the reference a points to;  *)
(* heap[InitialRef] is the one object the constant `initial` names.  A     *)
(* call takes references and returns [heap, ref]: the memory after it and  *)
(* the reference it returns.                                               *)

InitialRef == 1

(* an object literal: a new object, nothing else touched *)
alloc(h, obj) == [heap |-> Append(h, obj), ref |-> Len(h) + 1]

(* `return data`, `return initial`: an existing reference *)
same(h, a) == [heap |-> h, ref |-> a]

(* remoteRTK.map: always the literal ({ ...data, data: ... }) *)
mapAt_inPlace(h, fn, a) ==
    [heap |-> [h EXCEPT ![a] = map(fn, h[a]).ret], ref |-> a]

mapAt(h, fn, a) == alloc(h, map(fn, h[a]).ret)

(* remote.map: remote.success(...), remote.pending(...) or data itself *)
devMapAt(h, fn, a) ==
    IF isSuccess(h[a]) THEN alloc(h, devMap(fn, h[a]).ret)
    ELSE IF isPending(h[a]) /\ notNullish(h[a].data)
    THEN alloc(h, devMap(fn, h[a]).ret)
    ELSE same(h, a)

(* what the function handed to chain returns: a constructor call, or the   *)
(* constant initial                                                        *)
kleisliAt(h, name, a) ==
    IF name = "initial" THEN same(h, InitialRef)
    ELSE alloc(h, applyKleisli(name, a))

(* chain: f(data.data) or data itself *)
chainAt(h, name, a) ==
    IF isSuccess(h[a]) THEN kleisliAt(h, name, h[a].data)
    ELSE IF isPending(h[a]) /\ notNullish(h[a].data)
    THEN kleisliAt(h, name, h[a].data)
    ELSE same(h, a)

(* the objects the references refs point to *)
deref(h, refs) == [i \in 1..Len(refs) |-> h[refs[i]]]

(* sequenceT: a constructor call, or the constant initial at the end *)
sequenceTAt(h, refs) ==
    IF isInitial(sequenceT(deref(h, refs))) THEN same(h, InitialRef)
    ELSE alloc(h, sequenceT(deref(h, refs)))

(* sequenceS: tupleSequence is sequenceT's object; the result is a         *)
(* constructor call, tupleSequence itself (Failure) or the constant initial*)
sequenceSAt(h, ks, refs) ==
    LET tupleSequence == sequenceTAt(h, refs)
        r == sequenceS(entriesOf(ks, deref(h, refs)))
    IN  IF isFailure(r) THEN tupleSequence
        ELSE IF isInitial(r) THEN same(tupleSequence.heap, InitialRef)
        ELSE alloc(tupleSequence.heap, r)

(* the states and functions the calls by reference draw from *)
HeapStates ==
    {pending(Undefined), pending(Num(MaxNum)), failure(Str("e1")),
     success(Num(MaxNum))}
HeapFns == {<<"double">>}
HeapKleisliNames == {"successDouble", "failure", "initial"}
Refs == 1..Len(heap)
RefLists == {<<>>} \cup {<<a>> : a \in Refs} \cup {<<a, b>> : a, b \in Refs}

InitHeap ==
    /\ op = "none"
    /\ flavor = "core"
    /\ list = <<>>
    /\ struct = <<>>
    /\ x = InitialRef
    /\ f = <<>>
    /\ g = <<>>
    /\ result = InitialRef
    /\ result2 = initial
    /\ calls = <<>>
    /\ steps = 0
    /\ heap = <<initial>>

(* the rest of a call on the reference a that ends as r = [heap, ref] *)
Called(name, a, r) ==
    /\ op' = name
    /\ x' = a
    /\ result' = r.ref
    /\ heap' = r.heap
    /\ UNCHANGED <<list, struct, f, g, result2, calls, steps>>

(* pending(v), failure(e), success(v) *)
HeapConstruct ==
    /\ Len(heap) < MaxHeap
    /\ \E s \in HeapStates : Called("construct", x, alloc(heap, s))
    /\ UNCHANGED flavor

HeapMap ==
    /\ Len(heap) < MaxHeap
    /\ \E fl \in Flavors, fn \in HeapFns, a \in Refs :
        /\ flavor' = fl
        /\ Called("map", a, IF fl = "core" THEN mapAt(heap, fn, a)
                                           ELSE devMapAt(heap, fn, a))

HeapChain ==
    /\ Len(heap) < MaxHeap
    /\ \E name \in HeapKleisliNames, a \in Refs :
        Called("chain", a, chainAt(heap, name, a))
    /\ UNCHANGED flavor

HeapSequenceT ==
    /\ Len(heap) < MaxHeap
    /\ \E refs \in RefLists : Called("sequenceT", refs, sequenceTAt(heap, refs))
    /\ UNCHANGED flavor

HeapSequenceS ==
    /\ Len(heap) + 1 < MaxHeap
    /\ \E refs \in RefLists :
        Called("sequenceS", refs,
               sequenceSAt(heap, SubSeq(<<"one", "two">>, 1, Len(refs)), refs))
    /\ UNCHANGED flavor

(* fold, getOrElse, toNullable, toOption and toEither, called one after the *)
(* other on the state the last call returned, only read their argument     *)
HeapRead ==
    /\ op # "read"
    /\ op' = "read"
    /\ result2' = [name \in ReadNames |-> readCore(name, heap[result], Null)]
    /\ UNCHANGED <<flavor, list, struct, x, f, g, result, calls, steps, heap>>

NextHeap ==
    \/ HeapConstruct \/ HeapMap \/ HeapChain \/ HeapSequenceT
    \/ HeapSequenceS \/ HeapRead

SpecHeap == InitHeap /\ [][NextHeap]_vars

----------------------------------------------------------------------------
(* Vocabulary of the properties. *)

Idx == 1..Len(list)

(* a Pending whose data is present / absent *)
PendingWithData(s) == isPending(s) /\ notNullish(s.data)
BarePending(s)     == isPending(s) /\ ~notNullish(s.data)

(* the tuple of the payloads of list, in input order *)
PayloadTuple == Arr([i \in Idx |-> list[i].data])

----------------------------------------------------------------------------
(* C1: when some input of sequenceT is a Failure, the result is a Failure  *)
(* carrying the error of the first Failure in input order, whatever the    *)
(* other inputs are.                                                       *)
C1_FirstFailureWins ==
    (op = "sequenceT" /\ \E i \in Idx : isFailure(list[i])) =>
        \E i \in Idx :
            /\ isFailure(list[i])
            /\ \A j \in 1..(i - 1) : ~isFailure(list[j])
            /\ result = failure(list[i].error)

C1_Witness ==
    /\ op = "sequenceT"
    /\ Len(list) = 3
    /\ PendingWithData(list[1])
    /\ isFailure(list[2])
    /\ isFailure(list[3])
    /\ list[2].error # list[3].error
    /\ result = failure(list[2].error)

(* C2: no Failure, not all Success, every input Success or Pending with    *)
(* data: the result is a Pending carrying the tuple of all payloads in     *)
(* input order.                                                            *)
C2_PendingKeepsData ==
    ( /\ op = "sequenceT"
      /\ \A i \in Idx : ~isFailure(list[i])
      /\ \E i \in Idx : ~isSuccess(list[i])
      /\ \A i \in Idx : isSuccess(list[i]) \/ PendingWithData(list[i]) )
    => result = pending(PayloadTuple)

C2_Witness ==
    /\ op = "sequenceT"
    /\ list = <<success(Num(1)), pending(Num(0)), success(Null)>>
    /\ result = pending(Arr(<<Num(1), Num(0), Null>>))

(* C3: every input Success: the result is a Success whose payload is the   *)
(* tuple of the input payloads, same length, position i holding the        *)
(* payload of input i.                                                     *)
C3_AllSuccess ==
    (op = "sequenceT" /\ \A i \in Idx : isSuccess(list[i])) =>
        /\ isSuccess(result)
        /\ result = success(result.data)
        /\ result.data.t = "array"
        /\ Len(result.data.v) = Len(list)
        /\ \A i \in Idx : result.data.v[i] = list[i].data

C3_Witness ==
    /\ op = "sequenceT"
    /\ list = <<success(Num(0)), success(Num(1)), success(Num(1))>>
    /\ result = success(Arr(<<Num(0), Num(1), Num(1)>>))

(* C4: no Failure, at least one Pending and at least one input without     *)
(* payload (a bare Pending or an Initial): the result is a Pending with no *)
(* payload; stale data of a Pending-with-data input is dropped.            *)
C4_BarePendingDropsData ==
    ( /\ op = "sequenceT"
      /\ \A i \in Idx : ~isFailure(list[i])
      /\ \E i \in Idx : isPending(list[i])
      /\ \E i \in Idx : BarePending(list[i]) \/ isInitial(list[i]) )
    => result = pending(Undefined)

C4_Witness ==
    /\ op = "sequenceT"
    /\ \E i, j \in Idx : PendingWithData(list[i]) /\ isInitial(list[j])
    /\ \A i \in Idx : ~BarePending(list[i])
    /\ result = pending(Undefined)

(* C5: no Failure, no Pending and at least one Initial: the result is the  *)
(* Initial value, also for a mix of Success and Initial.                   *)
C5_InitialWhenNothingElse ==
    ( /\ op = "sequenceT"
      /\ \A i \in Idx : ~isFailure(list[i]) /\ ~isPending(list[i])
      /\ \E i \in Idx : isInitial(list[i]) )
    => result = initial

C5_Witness ==
    /\ op = "sequenceT"
    /\ \E i, j \in Idx : isSuccess(list[i]) /\ isInitial(list[j])
    /\ \A i \in Idx : isSuccess(list[i]) \/ isInitial(list[i])
    /\ result = initial

(* C6: sequenceS returns the variant sequenceT returns on the struct's     *)
(* values in key order; a payload (Success, Pending with data) is a        *)
(* mapping with exactly the input keys, each mapped to the payload of its  *)
(* own state; a Failure carries the error of the first Failure in key      *)
(* order; otherwise the result is the bare Pending or Initial of sequenceT.*)
C6_SequenceSAsSequenceT ==
    op = "sequenceS" =>
        LET n == Len(struct)
            t == sequenceT([i \in 1..n |-> struct[i][2]])
        IN  /\ result.status = t.status
            /\ (isSuccess(t) \/ PendingWithData(t)) =>
                /\ result = IF isSuccess(t) THEN success(result.data)
                            ELSE pending(result.data)
                /\ result.data.t = "object"
                /\ Len(result.data.v) = n
                /\ \A i \in 1..n : \E j \in 1..n :
                      result.data.v[j] = <<struct[i][1], struct[i][2].data>>
            /\ isFailure(t) =>
                \E i \in 1..n :
                    /\ isFailure(struct[i][2])
                    /\ \A j \in 1..(i - 1) : ~isFailure(struct[j][2])
                    /\ result = failure(struct[i][2].error)
            /\ (BarePending(t) \/ isInitial(t)) => result = t

C6_Witness ==
    /\ op = "sequenceS"
    /\ Len(struct) = 2
    /\ isSuccess(struct[1][2])
    /\ PendingWithData(struct[2][2])
    /\ struct[1][2].data # struct[2][2].data
    /\ result = pending(Obj(<<<<struct[1][1], struct[1][2].data>>,
                              <<struct[2][1], struct[2][2].data>>>>))

(* C7: map(f)(x) keeps the variant of x; on success(a) it is               *)
(* success(f(a)) for every payload a, null included; on pending(a) with    *)
(* data it is pending(f(a)); on initial, failure(e) and pending() it is x  *)
(* and f is never invoked.                                                 *)
C7_MapOnEveryPayload ==
    (op = "map" /\ flavor = "core") =>
        /\ result.status = x.status
        /\ isSuccess(x) => result = success(Apply(f, x.data))
        /\ PendingWithData(x) => result = pending(Apply(f, x.data))
        /\ (isInitial(x) \/ isFailure(x) \/ BarePending(x)) =>
                result = x /\ calls = <<>>

(* C8: functor composition law, map(f . g)(x) = map(f)(map(g)(x)) for      *)
(* every state x and all f, g, g returning null included.                  *)
C8_MapComposition ==
    op = "mapCompose" => result = result2

(* C9: functor identity law, map(identity)(x) equals x field for field on  *)
(* every constructor-built state.                                          *)
C9_MapIdentity ==
    (op = "map" /\ f = <<"id">>) => result = x

C9_Witness ==
    /\ op = "map"
    /\ f = <<"id">>
    /\ flavor = "core"
    /\ x = pending(Num(1))
    /\ calls = <<Num(1)>>
    /\ result = x

(* C10: chain(f)(x) is exactly f(a) when x is success(a) or pending(a)     *)
(* with data present, and is x itself, f not invoked, when x is initial, a *)
(* Failure or a Pending without data.                                      *)
C10_Chain ==
    op = "chain" =>
        IF isSuccess(x) \/ PendingWithData(x)
        THEN result = applyKleisli(f[1], x.data) /\ calls = <<x.data>>
        ELSE result = x /\ calls = <<>>

C10_Witness ==
    /\ op = "chain"
    /\ f = <<"successDouble">>
    /\ x = pending(Num(1))
    /\ result = success(Num(2))

(* C11: fold invokes exactly one of its four callbacks, exactly once, and  *)
(* returns its result: onInitial for Initial, onFailure(error) for         *)
(* Failure, onSuccess(data) for Success, onPending for Pending, with       *)
(* Some(data) when the Pending carries data and None when it does not.     *)
C11_FoldOneCallback ==
    op = "fold" =>
        LET name == CASE isInitial(x) -> "onInitial"
                      [] isFailure(x) -> "onFailure"
                      [] isSuccess(x) -> "onSuccess"
                      [] isPending(x) -> "onPending"
            arg  == CASE isInitial(x) -> Undefined
                      [] isFailure(x) -> x.error
                      [] isSuccess(x) -> x.data
                      [] PendingWithData(x) -> some(x.data)
                      [] BarePending(x) -> none
        IN  /\ calls = <<<<name, arg>>>>
            /\ result = Arr(<<Str(name), arg>>)

C11_Witness ==
    /\ op = "fold"
    /\ x = pending(Null)
    /\ calls = <<<<"onPending", none>>>>
    /\ result = Arr(<<Str("onPending"), none>>)

(* a state whose payload the extractors return: Success, Pending with data *)
HasPayload(s) == isSuccess(s) \/ PendingWithData(s)

(* C12: getOrElse(onElse)(x) returns the payload of a Success or a Pending *)
(* with data without evaluating onElse; for Initial, Failure and Pending   *)
(* without data it evaluates onElse exactly once and returns its result.   *)
C12_GetOrElse ==
    op = "getOrElse" =>
        IF HasPayload(x)
        THEN result = x.data /\ calls = <<>>
        ELSE result = f.value /\ calls = <<<<"onElse", Undefined>>>>

C12_Witness ==
    /\ op = "getOrElse"
    /\ x = pending(Num(1))
    /\ f = const("onElse", Str("else"))
    /\ result = Num(1)
    /\ calls = <<>>

(* C13: toNullable(x) equals getOrElse(() => null)(x): the payload for     *)
(* Success and Pending with data, null for Initial, Failure and Pending    *)
(* without data.                                                           *)
C13_ToNullable ==
    op = "toNullable" =>
        /\ result = result2
        /\ result = IF HasPayload(x) THEN x.data ELSE Null

C13_Witness ==
    /\ op = "toNullable"
    /\ x = pending(Undefined)
    /\ result = Null
    /\ result2 = Null

(* C14: toOption(x) is Some(payload) for Success and Pending with data,    *)
(* None for Initial, Failure and Pending without data.                     *)
C14_ToOption ==
    op = "toOption" =>
        result = IF HasPayload(x) THEN some(x.data) ELSE none

C14_Witness ==
    /\ op = "toOption"
    /\ x = success(Null)
    /\ result = some(Null)

(* C15: fromOption(Some(a), onNone) is success(a) without evaluating       *)
(* onNone, fromOption(None, onNone) is failure(onNone()), and              *)
(* toOption(fromOption(o, onNone)) equals o.                               *)
C15_OptionRoundTrip ==
    op = "fromOption" =>
        /\ IF isNone(x)
           THEN result = failure(f.value) /\ calls = <<<<"onNone", Undefined>>>>
           ELSE result = success(x.value) /\ calls = <<>>
        /\ result2 = x

C15_Witness ==
    /\ op = "fromOption"
    /\ x = some(Null)
    /\ result = success(Null)
    /\ result2 = some(Null)
    /\ calls = <<>>

(* C16: fromEither(Left(err)) is failure(err), fromEither(Right(a)) is     *)
(* success(a), and toEither(onInitial, onPending)(fromEither(e)) equals e  *)
(* without evaluating either thunk.                                        *)
C16_EitherRoundTrip ==
    op = "fromEither" =>
        /\ result = IF isLeft(x) THEN failure(x.left) ELSE success(x.right)
        /\ result2 = x
        /\ calls = <<>>

C16_Witness ==
    /\ op = "fromEither"
    /\ x = right(Null)
    /\ result = success(Null)
    /\ result2 = right(Null)

(* C17: toEither(onInitial, onPending)(x) is Right(data) for Success and   *)
(* Pending with data, Left(error) for Failure, Left(onInitial()) for       *)
(* Initial, Left(onPending()) for Pending without data; onInitial runs     *)
(* only for Initial and onPending only for Pending without data.           *)
C17_ToEither ==
    op = "toEither" =>
        /\ HasPayload(x) => result = right(x.data) /\ calls = <<>>
        /\ isFailure(x) => result = left(x.error) /\ calls = <<>>
        /\ isInitial(x) =>
              result = left(f.value) /\ calls = <<<<"onInitial", Undefined>>>>
        /\ BarePending(x) =>
              result = left(g.value) /\ calls = <<<<"onPending", Undefined>>>>

C17_Witness ==
    /\ op = "toEither"
    /\ x = pending(Undefined)
    /\ f.value # g.value
    /\ result = left(g.value)
    /\ calls = <<<<"onPending", Undefined>>>>

(* C18: on a value built by one of the four constructors exactly one of    *)
(* isInitial, isPending, isFailure, isSuccess is true, and it is the       *)
(* predicate of the constructor that built the value.                      *)
C18_ExactlyOneGuard ==
    op = "guards" =>
        /\ result.isInitial <=> (f = <<"initial">>)
        /\ result.isPending <=> (f = <<"pending">>)
        /\ result.isFailure <=> (f = <<"failure">>)
        /\ result.isSuccess <=> (f = <<"success">>)
        /\ Cardinality({p \in DOMAIN result : result[p]}) = 1

C18_Witness ==
    /\ op = "guards"
    /\ f = <<"failure">>
    /\ x = failure(Null)
    /\ result.isFailure
    /\ ~result.isInitial /\ ~result.isPending /\ ~result.isSuccess

(* C19: the presentation adapter emits exactly the content of the renderer *)
(* matching the state: the initial content for Initial (empty when         *)
(* omitted), the pending content for Pending without data (empty when      *)
(* omitted), refetching(data) for Pending with data (the pending content   *)
(* when refetching is omitted), failure(error) for Failure (empty when     *)
(* omitted), success(data) for Success; no other renderer is invoked.      *)
C19_RenderSelectsRenderer ==
    op = "render" =>
        LET empty == Null
            initialContent == IF f.initial = Undefined THEN empty ELSE f.initial
            pendingContent == IF f.pending = Undefined THEN empty ELSE f.pending
            content ==
                CASE isInitial(x) -> initialContent
                  [] BarePending(x) -> pendingContent
                  [] PendingWithData(x) ->
                        IF f.refetching = Undefined THEN pendingContent
                        ELSE Arr(<<Str("refetching"), x.data>>)
                  [] isFailure(x) ->
                        IF f.failure = Undefined THEN empty
                        ELSE Arr(<<Str("failure"), x.error>>)
                  [] isSuccess(x) -> Arr(<<Str("success"), x.data>>)
            renderer ==
                CASE isInitial(x) -> "initial"
                  [] BarePending(x) -> "pending"
                  [] PendingWithData(x) ->
                        IF f.refetching = Undefined THEN "refetchingDefault"
                        ELSE "refetching"
                  [] isFailure(x) ->
                        IF f.failure = Undefined THEN "failureDefault"
                        ELSE "failure"
                  [] isSuccess(x) -> "success"
        IN  /\ result.type = "Fragment"
            /\ result.props.children = content
            /\ Len(calls) = 1
            /\ calls[1][1] = renderer

C19_Witness ==
    /\ op = "render"
    /\ flavor = "core"
    /\ x = pending(Num(1))
    /\ f.refetching = Undefined
    /\ f.pending = Str("pending-node")
    /\ result.props.children = Str("pending-node")
    /\ calls = <<<<"refetchingDefault", Num(1)>>>>

(* the data-model invariant of a RemoteRTK value *)
WellFormed(s) ==
    /\ Cardinality({p \in {1, 2, 3, 4} :
            <<isInitial(s), isPending(s), isFailure(s), isSuccess(s)>>[p]}) = 1
    /\ isFailure(s) => "error" \in DOMAIN s /\ s.data = Undefined
    /\ isSuccess(s) => Get(s, "error") = Undefined
    /\ isInitial(s) => Get(s, "error") = Undefined /\ s.data = Undefined
    /\ notNullish(s.data) => isSuccess(s) \/ isPending(s)

(* C20: starting from the four constructors and applying any finite        *)
(* sequence of map, chain, sequenceT, sequenceS, fromOption and fromEither,*)
(* every value has exactly one of the four variants, a Failure carries an  *)
(* error and no data payload, a Success no error, an Initial neither, and  *)
(* a data payload is present only on Success or Pending.                   *)
C20_DataModelInvariant == WellFormed(result)

C20_Witness ==
    /\ steps = 2
    /\ op = "map"
    /\ isPending(x)
    /\ x.data.t = "array"
    /\ isPending(result)
    /\ result.data = Num(0)
    /\ WellFormed(result)

(* C21: the two flavors return equal results for every shared function on   *)
(* every input built by the constructors, null payloads included           *)
(* (sequenceT against sequence, sequenceS against combine).                *)
C21_FlavorsAgree == op \in FlavorOps => result = result2

(* C24: sequenceT and sequenceS return Initial only when no input is a     *)
(* Failure and no input is a Pending, with or without data.                *)
C24_InitialOnlyWithoutFailureOrPending ==
    (op \in {"sequenceT", "sequenceS"} /\ isInitial(result)) =>
        \A i \in Idx : ~isFailure(list[i]) /\ ~isPending(list[i])

C24_Witness ==
    /\ op = "sequenceS"
    /\ Len(struct) = 2
    /\ isInitial(result)
    /\ \E i \in Idx : isSuccess(list[i])
    /\ \E i \in Idx : isInitial(list[i])

(* C26: for a non-empty list, toOption(sequenceT(...list)) is Some(t)      *)
(* exactly when toOption of every input is Some, t being the inputs'       *)
(* payloads in input order; otherwise it is None.                          *)
C26_ToOptionOfSequenceT ==
    (op = "sequenceT.toOption" /\ list # <<>>) =>
        IF \A i \in Idx : ~isNone(toOption(list[i]))
        THEN result2 = some(Arr([i \in Idx |-> toOption(list[i]).value]))
        ELSE result2 = none

C26_Witness ==
    /\ op = "sequenceT.toOption"
    /\ Len(list) = 2
    /\ PendingWithData(list[1])
    /\ isSuccess(list[2])
    /\ isPending(result)
    /\ result2 = some(Arr(<<list[1].data, list[2].data>>))

(* Option.map of fp-ts: isNone(fa) ? none : some(f(fa.value)) *)
optionMap(fn, fa) == IF isNone(fa) THEN none ELSE some(Apply(fn, fa.value))

(* C27: toOption(map(f)(x)) equals Option.map(f)(toOption(x)) for every    *)
(* state x and every f, null payloads and null results included; map never *)
(* turns a state that carries a payload into one that carries none.        *)
C27_ToOptionCommutesWithMap ==
    op = "map" => toOption(result) = optionMap(f, toOption(x))

(* C28: sequenceT() is the Success of the empty tuple and sequenceS({}) is *)
(* the Success of the empty mapping, not Initial.                          *)
C28_EmptyInputs ==
    /\ (op = "sequenceT" /\ list = <<>>) => result = success(Arr(<<>>))
    /\ (op = "sequenceS" /\ struct = <<>>) =>
            /\ result2 = success(Arr(<<>>))
            /\ result = success(Obj(<<>>))

C28_Witness ==
    /\ op = "sequenceS"
    /\ struct = <<>>
    /\ list = <<>>
    /\ isSuccess(result)
    /\ result.data = Obj(<<>>)

(* C29: the variant of sequenceT's result, and whether it carries a        *)
(* payload, do not depend on the order of the inputs: every permutation of *)
(* the same states gives the same variant and the same payload presence.   *)
C29_OrderIndependentVariant ==
    op = "sequenceT.permuted" =>
        /\ result.status = result2.status
        /\ HasPayload(result) <=> HasPayload(result2)

C29_Witness ==
    /\ op = "sequenceT.permuted"
    /\ Len(list) = 3
    /\ g = <<3, 1, 2>>
    /\ isFailure(list[1]) /\ isFailure(list[2])
    /\ isFailure(result) /\ isFailure(result2)
    /\ result # result2

(* C30: chain is associative, chain(g)(chain(f)(x)) equals                 *)
(* chain(a => chain(g)(f(a)))(x) for f and g returning states built by the *)
(* constructors, and chain(f)(success(a)) is f(a) for every a.             *)
C30_ChainAssociative ==
    op = "chain.chain" =>
        /\ result = result2
        /\ isSuccess(x) =>
                /\ chain(f, x).ret = applyKleisli(f[1], x.data)
                /\ result = chain(g, applyKleisli(f[1], x.data)).ret

C30_Witness ==
    /\ op = "chain.chain"
    /\ isSuccess(x) /\ x.data = Null
    /\ f = <<"pending">>
    /\ g = <<"successDouble">>
    /\ calls = <<Null>>
    /\ result = pending(Null)
    /\ result2 = pending(Null)

(* the calls whose result is a state *)
StateOps ==
    {"sequenceT", "sequenceS", "map", "chain", "fromOption", "fromEither"}

(* C23: every function of the algebra returns a result, it never throws,   *)
(* for every state built by the constructors and, for sequenceT and        *)
(* sequenceS, for every combination of such states; the functions that     *)
(* return a state return one of the four variants.                         *)
C23_Total ==
    op \notin {"none", "mapLeft"} =>
        /\ result # TypeError
        /\ op \in StateOps =>
                /\ "status" \in DOMAIN result
                /\ isInitial(result) \/ isPending(result)
                     \/ isFailure(result) \/ isSuccess(result)

C23_Witness ==
    /\ op = "sequenceT"
    /\ Len(list) = 2
    /\ isInitial(list[1])
    /\ BarePending(list[2])
    /\ failureEntry(list) = Undefined
    /\ result = pending(Undefined)

(* C25: the exported object offers mapLeft as the README documents it:     *)
(* mapLeft(g) on failure(e) is failure(g(e)).                              *)
C25_MapLeftOffered ==
    op = "mapLeft" =>
        /\ "mapLeft" \in apiOf(flavor)
        /\ result = failure(Apply(f, Get(x, "error")))

(* C22: no function writes to a state handed to it or to the constant      *)
(* initial: across every call, in every order of calls, every object that  *)
(* existed before the call has the same fields after it.                   *)
C22_NoMutation ==
    [][/\ heap'[InitialRef] = initial
       /\ \A a \in 1..Len(heap) : heap'[a] = heap[a]]_vars

C22_Witness ==
    /\ op = "map"
    /\ flavor = "core"
    /\ Len(heap) = 3
    /\ x = 2
    /\ result = 3
    /\ isSuccess(heap[2])
    /\ heap[3].data # heap[2].data

====
